---- MODULE Spec2Model ----
(***************************************************************************)
(* A model of build.py, the build/run script of SocialNetworkSimulatorV3.  *)
(*                                                                         *)
(* The script is a command dispatcher over three directories (.venv,       *)
(* classes, lib) and a handful of external processes.  Every function of   *)
(* the script that has an effect is modelled as an operator from a "world" *)
(* (the three directories, what the invocation has learnt about its host,  *)
(* how far it got) to the SET of worlds it can end in: one world per       *)
(* outcome of the external processes and filesystem calls it makes.        *)
(* sys.exit, an uncaught exception and an uncaught KeyboardInterrupt are   *)
(* the world's status; a function is only continued in worlds whose status *)
(* is still "run".                                                         *)
(***************************************************************************)
EXTENDS Integers, Sequences, FiniteSets, TLC

VARIABLES fs, phase, res, prev, probe

vars == <<fs, phase, res, prev, probe>>

(***************************************************************************)
(* Bounds of the model.                                                    *)
(***************************************************************************)
MaxJars == 2          \* .jar archives the library cache can hold
MaxRc == 2            \* largest exit code an external process returns
MaxLen == 4           \* longest version string given to the pure parser

(***************************************************************************)
(* Configuration (build.py, "--- Configuration ---").                      *)
(***************************************************************************)
MIN_JAVA_VERSION == 8
ALLOWED_PYTHON_VERSIONS == {<<3, 9>>, <<3, 10>>}
JAVA_MAIN_CLASS == "jade.Boot"
JAVA_MAIN_AGENT == "controller:TwitterGatherDataFollowers.userRyersonU.ControllerAgent"

(***************************************************************************)
(* Strings are sequences of one-character strings, so that the parser can  *)
(* be modelled at the level of characters.  An Optional[str] is a record.  *)
(***************************************************************************)
None == [some |-> FALSE, s |-> <<>>]
Str(s) == [some |-> TRUE, s |-> s]
ErrorStr == <<"E", "r", "r", "o", "r">>
UnknownFormatStr == <<"U", "n", "k", "n", "o", "w", "n", " ", "f", "o", "r", "m", "a", "t">>
\* The value of an absent integer (Python's None where an int is expected).
NoneMajor == -1
\* The return code of a process that has not returned.
NoRc == -1

IsDigit(c) == c \in {"0", "1", "2", "3", "4", "5", "6", "7", "8", "9"}

DigitVal(c) ==
  CASE c = "0" -> 0 [] c = "1" -> 1 [] c = "2" -> 2 [] c = "3" -> 3 [] c = "4" -> 4
    [] c = "5" -> 5 [] c = "6" -> 6 [] c = "7" -> 7 [] c = "8" -> 8 [] c = "9" -> 9

\* int(): the value of a run of decimal digits.
RECURSIVE IntOf(_)
IntOf(ds) ==
  IF ds = <<>> THEN 0
  ELSE 10 * IntOf(SubSeq(ds, 1, Len(ds) - 1)) + DigitVal(ds[Len(ds)])

\* \d+ matched greedily at position i of s: the number of digits it takes.
RECURSIVE DigitRun(_, _)
DigitRun(s, i) ==
  IF i <= Len(s) /\ IsDigit(s[i]) THEN 1 + DigitRun(s, i + 1) ELSE 0

\* Python truthiness of an Optional[int]: None and 0 are both false.
Truthy(n) == n # NoneMajor /\ n # 0

(***************************************************************************)
(* fetch_java_major_ver: re.match(r"(\d+)(?:.(\d+))?", version_string).    *)
(* The dot of the pattern is not escaped: it matches any character but a   *)
(* newline.  group(1) is the greedy leading digit run; the optional group  *)
(* matches when one more character and at least one digit follow it.       *)
(***************************************************************************)
fetch_java_major_ver(v) ==
  IF ~v.some \/ v.s = <<>> \/ v.s \in {UnknownFormatStr, ErrorStr} THEN NoneMajor
  ELSE LET s == v.s
           n1 == DigitRun(s, 1)
           n2 == IF Len(s) >= n1 + 2 /\ s[n1 + 1] # "\n" THEN DigitRun(s, n1 + 2) ELSE 0
           major == IntOf(SubSeq(s, 1, n1))
       IN IF n1 = 0 THEN NoneMajor
          ELSE IF major = 1 /\ n2 > 0 THEN IntOf(SubSeq(s, n1 + 2, n1 + 1 + n2))
          ELSE major

(***************************************************************************)
(* java_runtime_opts: the JVM options and the JADE options of a launch.    *)
(***************************************************************************)
modules_to_open ==
  << "java.base/java.lang", "java.base/java.io", "java.base/java.util",
     "java.base/java.util.concurrent", "java.base/sun.nio.ch", "java.base/java.net" >>

\* java_opts.extend(["--add-opens", f"{module_spec}=ALL-UNNAMED"])
AddOpens(m) == << "--add-opens", m \o "=ALL-UNNAMED" >>

RECURSIVE ExtendAll(_, _)
ExtendAll(opts, mods) ==
  IF mods = <<>> THEN opts
  ELSE ExtendAll(opts \o AddOpens(Head(mods)), Tail(mods))

base_java_opts == << "-Xms256m", "-Xmx1424m", "-XX:-UseGCOverheadLimit" >>

jade_opts ==
  << "-jade_domain_df_maxresult", "1500",
     "-jade_core_messaging_MessageManager_poolsize", "10",
     "-jade_core_messaging_MessageManager_maxqueuesize", "2000000000",
     "-jade_core_messaging_MessageManager_deliverytimethreshold", "10000",
     "-jade_domain_df_autocleanup", "true", "-local-port", "35240" >>

java_runtime_opts_from8(java_major_version) ==
  [ java_opts |-> IF Truthy(java_major_version) /\ java_major_version >= 8
                  THEN ExtendAll(base_java_opts, modules_to_open)
                  ELSE base_java_opts,
    jade_opts |-> jade_opts ]

java_runtime_opts(java_major_version) ==
  [ java_opts |-> IF Truthy(java_major_version) /\ java_major_version >= 9
                  THEN ExtendAll(base_java_opts, modules_to_open)
                  ELSE base_java_opts,
    jade_opts |-> jade_opts ]

(***************************************************************************)
(* The filesystem.                                                         *)
(*   venv    : VENV_DIR; dir - the directory exists; exe - the interpreter *)
(*             py_exe_path() exists; py - how that interpreter answers     *)
(*             "--version" (exit code, and the (major, minor) its output   *)
(*             parses to, <<>> when "Python (\d+)\.(\d+)" does not match). *)
(*   classes : CLASSES_DIR, absent, empty or holding compiled classes.     *)
(*   lib     : LIB_DIR and the files in it.                                *)
(* A file of LIB_DIR is its name's rank in sorted order and its extension. *)
(***************************************************************************)
Jars == {[stem |-> i, ext |-> "jar"] : i \in 1..MaxJars}
LibFiles == Jars \cup {[stem |-> 0, ext |-> "txt"]}
ClassesEntry == [stem |-> 0, ext |-> "classes"]

NoPy == [rc |-> 1, ver |-> <<>>]
PyInterps ==
  {[rc |-> 0, ver |-> v] : v \in {<<3, 9>>, <<3, 10>>, <<3, 8>>, <<>>}} \cup {NoPy}

VenvAbsent == [dir |-> FALSE, exe |-> FALSE, py |-> NoPy]
VenvPartial == [dir |-> TRUE, exe |-> FALSE, py |-> NoPy]
VenvWith(py) == [dir |-> TRUE, exe |-> TRUE, py |-> py]
VenvStates == {VenvAbsent, VenvPartial} \cup {VenvWith(py) : py \in PyInterps}

ClassesStates == {"absent", "empty", "nonempty"}

LibAbsent == [exists |-> FALSE, files |-> {}]
LibStates == {LibAbsent} \cup {[exists |-> TRUE, files |-> F] : F \in SUBSET LibFiles}

FsStates == [venv : VenvStates, classes : ClassesStates, lib : LibStates]

(***************************************************************************)
(* The world of one invocation.                                            *)
(*   st      : "run" while the script is executing; "fatal" after perr     *)
(*             (sys.exit(1)); "exc" while an exception propagates;         *)
(*             "sigint" while a KeyboardInterrupt propagates; "ok" once    *)
(*             the script has finished.                                    *)
(*   found, missing, platform : what the invocation has learnt about the   *)
(*             search path and platform.system() ("?" until consulted).    *)
(*   trace   : the processes spawned, filesystem calls made, steps started *)
(*             and warnings printed, in order.                             *)
(*   pip_rc, nltk_rc : the return codes run_cmd handed back to install for *)
(*             the package install and for the corpus fetch.               *)
(*   the rest are the values of the script's local variables.              *)
(***************************************************************************)
NoOut == [cnf |-> FALSE, ver |-> None, py |-> <<>>]

NewWorld(f) ==
  [ venv |-> f.venv, classes |-> f.classes, lib |-> f.lib,
    st |-> "run", err |-> "", trace |-> <<>>,
    found |-> {}, missing |-> {}, platform |-> "?", script |-> <<>>,
    pom |-> "?", req |-> "?", src |-> "?",
    rc |-> 0, out |-> NoOut, pip_rc |-> NoRc, nltk_rc |-> NoRc,
    vstr |-> None, mstr |-> None, major |-> NoneMajor, pyver |-> <<>>,
    cp |-> <<>>, argv |-> <<>>, launch |-> "none" ]

FsOf(w) == [venv |-> w.venv, classes |-> w.classes, lib |-> w.lib]

Log(w, e) == [w EXCEPT !.trace = Append(@, e)]

\* S; F : F is run in every world of S in which the script is still running.
Then(S, F(_)) == UNION {IF w.st = "run" THEN F(w) ELSE {w} : w \in S}

pwarn(w, message) == Log(w, "warn: " \o message)

\* perr: print the message and sys.exit(exit_code), exit_code = 1.
perr(w, message) ==
  [w EXCEPT !.st = "fatal", !.err = message, !.trace = Append(@, "error: " \o message)]

\* An exception raised outside every try block of the function that runs.
Raise(w, what) == [w EXCEPT !.st = "exc", !.err = what]

(***************************************************************************)
(* The host: whether a command is on the search path, and the platform.    *)
(* Both are fixed for the invocation from the moment they are consulted.   *)
(***************************************************************************)
Which(w, command) ==
  IF command \in w.found \cup w.missing THEN {w}
  ELSE {[w EXCEPT !.found = @ \cup {command}], [w EXCEPT !.missing = @ \cup {command}]}

Platform(w) ==
  IF w.platform # "?" THEN {w}
  ELSE {[w EXCEPT !.platform = "Posix"], [w EXCEPT !.platform = "Windows"]}

check_tool(w, command) ==
  Then(Which(w, command),
       LAMBDA v : IF command \in v.found THEN {v} ELSE {perr(v, "tool not found: " \o command)})

(***************************************************************************)
(* run_cmd.  A process behaviour p is how the child ends (k) and what it   *)
(* leaves behind: "exit" with a return code and its output, "notfound"     *)
(* (subprocess.run raises FileNotFoundError), "oserror" (it raises another *)
(* exception) or "sigint" (KeyboardInterrupt during the wait).             *)
(***************************************************************************)
Exit(w, rc, out) ==
  [k |-> "exit", rc |-> rc, out |-> out, venv |-> w.venv, classes |-> w.classes, lib |-> w.lib]

Ends(w, k) ==
  [k |-> k, rc |-> 0, out |-> NoOut, venv |-> w.venv, classes |-> w.classes, lib |-> w.lib]

Spawned(w, name, p) ==
  [w EXCEPT !.venv = p.venv, !.classes = p.classes, !.lib = p.lib,
            !.rc = p.rc, !.out = p.out, !.trace = Append(@, name)]

run_cmd_one(w, name, check, p) ==
  CASE p.k = "notfound" -> perr(w, "command not found")
    [] p.k = "oserror" -> perr(w, "unexpected error running command")
    [] p.k = "sigint" -> [Spawned(w, name, p) EXCEPT !.st = "sigint"]
    [] p.k = "exit" ->
         IF check /\ p.rc # 0 THEN perr(Spawned(w, name, p), "command failed")
         ELSE Spawned(w, name, p)

run_cmd(w, name, check, procs) == {run_cmd_one(w, name, check, p) : p \in procs}

\* A child that was started may also be interrupted, or fail to start at all.
Started(w, behaviours) == behaviours \cup {Ends(w, "sigint"), Ends(w, "oserror")}

\* The child of a command looked up on the search path.  When the command
\* is not there, subprocess.run raises FileNotFoundError without a shell
\* (use_shell is False), and with the shell of Windows (use_shell is True)
\* the shell itself exits nonzero.
Exec(w, command, name, check, behaviours) ==
  UNION {IF command \in v.found
         THEN run_cmd(v, name, check, Started(v, behaviours))
         ELSE UNION {run_cmd(u, name, check,
                             IF u.platform = "Posix" THEN {Ends(u, "notfound")}
                             ELSE {Exit(u, rc, NoOut) : rc \in 1..MaxRc} \cup {Ends(u, "sigint")})
                     : u \in Platform(v)}
         : v \in Which(w, command)}

\* The child of an executable given by its path, which the caller has seen.
ExecPath(w, name, check, behaviours) == run_cmd(w, name, check, Started(w, behaviours))

\* `result` is a local of the function that called run_cmd.
Forget(w) == [w EXCEPT !.rc = 0, !.out = NoOut]

NoEffect(w) == {Exit(w, rc, NoOut) : rc \in 0..MaxRc}

(***************************************************************************)
(* The version probes.  An output is what the probe's patterns find in it: *)
(* cnf - it contains "command not found"; ver - the group the version      *)
(* pattern captures, None when no pattern matches.                         *)
(***************************************************************************)
JavaVersionStrings ==
  { <<"1", ".", "0">>, <<"1", ".", "7">>, <<"1", ".", "8", ".", "0">>,
    <<"1", "7", ".", "0", ".", "2">>, <<"e", "a">> }

JavaOutputs ==
  {[cnf |-> FALSE, ver |-> Str(v), py |-> <<>>] : v \in JavaVersionStrings}
    \cup {[cnf |-> c, ver |-> None, py |-> <<>>] : c \in BOOLEAN}

MvnOutputs ==
  {[cnf |-> FALSE, ver |-> Str(<<"3", ".", "9">>), py |-> <<>>]}
    \cup {[cnf |-> c, ver |-> None, py |-> <<>>] : c \in BOOLEAN}

JavaVersionProc(w) == {Exit(w, rc, o) : rc \in 0..MaxRc, o \in JavaOutputs}

MvnVersionProc(w) == {Exit(w, rc, o) : rc \in 0..MaxRc, o \in MvnOutputs}

\* What both probes do with the result of run_cmd(..., check=False).
ProbeResult(v, tool) ==
  IF v.rc # 0 /\ ~v.out.cnf THEN [w |-> pwarn(Forget(v), tool \o " version command failed"),
                                  ret |-> Str(ErrorStr)]
  ELSE IF v.out.ver.some THEN [w |-> Forget(v), ret |-> v.out.ver]
  ELSE [w |-> Forget(v), ret |-> Str(UnknownFormatStr)]

\* "except FileNotFoundError: return None" is never reached: run_cmd handles
\* the exception itself, by perr.
fetch_java_version_str(w) ==
  Then(Exec(w, "java", "java -version", FALSE, JavaVersionProc(w)),
       LAMBDA v : {[ProbeResult(v, "java").w EXCEPT !.vstr = ProbeResult(v, "java").ret]})

fetch_mvn_version_str(w) ==
  Then(Exec(w, "mvn", "mvn --version", FALSE, MvnVersionProc(w)),
       LAMBDA v : {[ProbeResult(v, "mvn").w EXCEPT !.mstr = ProbeResult(v, "mvn").ret]})

\* The interpreter at python_exe answering "--version".
PythonVersionProc(w, py) ==
  IF py.rc = 0 THEN {Exit(w, 0, [cnf |-> FALSE, ver |-> None, py |-> py.ver])}
  ELSE {Exit(w, rc, NoOut) : rc \in 1..MaxRc}

\* fetch_py_version: pyver is the (major, minor) it returns, <<>> for None.
fetch_py_version(w, exists, py) ==
  IF ~exists THEN {[w EXCEPT !.pyver = <<>>]}
  ELSE Then(ExecPath(w, "python --version", TRUE, PythonVersionProc(w, py)),
            LAMBDA v : IF v.out.py # <<>> THEN {[Forget(v) EXCEPT !.pyver = v.out.py]}
                       ELSE {[pwarn(Forget(v), "could not parse Python version") EXCEPT !.pyver = <<>>]})

\* sys.version_info[:2] of the interpreter that runs the script; __main__
\* lets the script continue only when it is an allowed version.
ScriptPython(w) ==
  IF w.script # <<>> THEN {w} ELSE {[w EXCEPT !.script = v] : v \in ALLOWED_PYTHON_VERSIONS}

(***************************************************************************)
(* ensure_venv.                                                            *)
(***************************************************************************)
\* shutil.rmtree(VENV_DIR): the directory goes, or the call raises and what
\* is left has no interpreter.
RmtreeVenv(w) ==
  { Log([w EXCEPT !.venv = VenvAbsent], "rmtree .venv"),
    Raise(Log([w EXCEPT !.venv = VenvPartial], "rmtree .venv"), "rmtree failed") }

\* venv.create(VENV_DIR, with_pip=True) by the interpreter running the
\* script: created; reported created without an interpreter inside; or it
\* raises, leaving nothing, a partial directory, or a directory whose
\* interpreter is there (the pip bootstrap is the last step).
VenvCreate(w) ==
  UNION {LET u == Log(v, "venv.create")
             made == VenvWith([rc |-> 0, ver |-> v.script])
         IN {[u EXCEPT !.venv = made]}
              \cup {perr([u EXCEPT !.venv = VenvPartial], "venv created but interpreter missing")}
              \cup {perr([u EXCEPT !.venv = x], "failed to create venv")
                      : x \in {VenvAbsent, VenvPartial, made}}
         : v \in ScriptPython(w)}

ensure_venv_recreate(w) ==
  Then(IF w.venv.dir THEN RmtreeVenv(pwarn(w, "removing incomplete venv")) ELSE {w},
       VenvCreate)

ensure_venv_strict(w) ==
  IF ~w.venv.dir \/ ~w.venv.exe
  THEN Then(IF w.venv.dir THEN RmtreeVenv(pwarn(w, "removing incomplete venv")) ELSE {w},
            VenvCreate)
  ELSE Then(fetch_py_version(w, w.venv.exe, w.venv.py),
            LAMBDA v :
              IF v.pyver # <<>> /\ v.pyver \notin ALLOWED_PYTHON_VERSIONS
              THEN {perr(v, "venv Python version mismatch")}
              ELSE IF v.pyver = <<>> THEN {pwarn(v, "venv Python version unknown")}
              ELSE {v})

ensure_venv_keeps_partial(w) ==
  IF ~w.venv.dir \/ ~w.venv.exe
  THEN VenvCreate(w)
  ELSE Then(fetch_py_version(w, w.venv.exe, w.venv.py),
            LAMBDA v :
              IF v.pyver # <<>> /\ v.pyver \notin ALLOWED_PYTHON_VERSIONS
              THEN {pwarn(v, "venv Python version mismatch")}
              ELSE IF v.pyver = <<>> THEN {pwarn(v, "venv Python version unknown")}
              ELSE {v})

ensure_venv(w) ==
  IF ~w.venv.dir \/ ~w.venv.exe
  THEN Then(IF w.venv.dir THEN RmtreeVenv(pwarn(w, "removing incomplete venv")) ELSE {w},
            VenvCreate)
  ELSE Then(fetch_py_version(w, w.venv.exe, w.venv.py),
            LAMBDA v :
              IF v.pyver # <<>> /\ v.pyver \notin ALLOWED_PYTHON_VERSIONS
              THEN {pwarn(v, "venv Python version mismatch")}
              ELSE IF v.pyver = <<>> THEN {pwarn(v, "venv Python version unknown")}
              ELSE {v})

(***************************************************************************)
(* install.                                                                *)
(***************************************************************************)
Exists(w, what) ==
  CASE what = "pom" -> IF w.pom # "?" THEN {w}
                        ELSE {[w EXCEPT !.pom = "present"], [w EXCEPT !.pom = "absent"]}
    [] what = "req" -> IF w.req # "?" THEN {w}
                        ELSE {[w EXCEPT !.req = "present"], [w EXCEPT !.req = "absent"]}

\* os.makedirs(LIB_DIR, exist_ok=True)
MakedirsLib(w) ==
  IF w.lib.exists THEN {w}
  ELSE { Log([w EXCEPT !.lib = [exists |-> TRUE, files |-> {}]], "makedirs lib"),
         Raise(w, "makedirs failed") }

\* mvn dependency:copy-dependencies -DoutputDirectory=LIB_DIR: it copies
\* archives into the library cache, all of them or, when it fails or is
\* interrupted, some of them.
MvnCopyProc(w) ==
  {[Exit(w, rc, NoOut) EXCEPT !.lib.files = @ \cup J] : rc \in 0..MaxRc, J \in SUBSET Jars}
    \cup {[Ends(w, "sigint") EXCEPT !.lib.files = @ \cup J] : J \in SUBSET Jars}

install_phase1(w) ==
  Then(check_tool(w, "mvn"),
       LAMBDA v :
         IF v.pom = "absent" THEN {pwarn(v, "pom.xml not found, skipping Java dependencies")}
         ELSE Then(MakedirsLib(v),
                   LAMBDA u : Then(Exec(u, "mvn", "mvn dependency:copy-dependencies", TRUE,
                                        MvnCopyProc(u)),
                                   LAMBDA x : {Forget(x)})))

install_phase2_unchecked(w) ==
  Then(ensure_venv(w),
    LAMBDA v :
      IF ~v.venv.exe THEN {perr(v, "Python executable not found in venv")}
      ELSE Then(ExecPath(v, "pip install --upgrade pip", TRUE, NoEffect(v)),
             LAMBDA u :
               Then(Exists(Forget(u), "req"),
                 LAMBDA x :
                   IF x.req = "absent" THEN {perr(x, "requirements.txt not found")}
                   ELSE Then(ExecPath(x, "pip install -r requirements.txt", FALSE, NoEffect(x)),
                             LAMBDA y : {[Forget(y) EXCEPT !.pip_rc = y.rc]}))))

install_phase2(w) ==
  Then(ensure_venv(w),
    LAMBDA v :
      IF ~v.venv.exe THEN {perr(v, "Python executable not found in venv")}
      ELSE Then(ExecPath(v, "pip install --upgrade pip", TRUE, NoEffect(v)),
             LAMBDA u :
               Then(Exists(Forget(u), "req"),
                 LAMBDA x :
                   IF x.req = "absent" THEN {perr(x, "requirements.txt not found")}
                   ELSE Then(ExecPath(x, "pip install -r requirements.txt", TRUE, NoEffect(x)),
                             LAMBDA y : {[Forget(y) EXCEPT !.pip_rc = y.rc]}))))

install_phase3_fatal(w) ==
  Then(ExecPath(w, "nltk.download", FALSE, NoEffect(w)),
       LAMBDA v : IF v.rc = 0 THEN {[Forget(v) EXCEPT !.nltk_rc = v.rc]}
                  ELSE {perr([Forget(v) EXCEPT !.nltk_rc = v.rc], "NLTK data download failed")})

install_phase3(w) ==
  Then(ExecPath(w, "nltk.download", FALSE, NoEffect(w)),
       LAMBDA v : IF v.rc = 0 THEN {[Forget(v) EXCEPT !.nltk_rc = v.rc]}
                  ELSE {pwarn([Forget(v) EXCEPT !.nltk_rc = v.rc], "NLTK data download failed")})

\* Whether POM_FILE exists is a fact of the host, fixed before install looks.
install(w) ==
  Then(Then(Then(Exists(Log(w, "install"), "pom"), install_phase1), install_phase2),
       install_phase3)

(***************************************************************************)
(* clean_java_output, clean_py_env.  A removal that raises leaves the      *)
(* directory there, whole or in part; the exception is caught, by perr.    *)
(***************************************************************************)
clean_java_output_strict(w) ==
  LET v == Log(w, "clean_java_output")
  IN IF v.classes # "absent"
     THEN {Log([v EXCEPT !.classes = "absent"], "rmtree classes")}
            \cup {perr(Log([v EXCEPT !.classes = c], "rmtree classes"), "failed to remove classes")
                    : c \in {v.classes, "empty"}}
     ELSE {perr(v, "failed to remove classes")}

clean_java_output(w) ==
  LET v == Log(w, "clean_java_output")
  IN IF v.classes # "absent"
     THEN {Log([v EXCEPT !.classes = "absent"], "rmtree classes")}
            \cup {perr(Log([v EXCEPT !.classes = c], "rmtree classes"), "failed to remove classes")
                    : c \in {v.classes, "empty"}}
     ELSE {v}

clean_py_env_noop(w) ==
  LET v == Log(w, "clean_py_env")
  IN {v}

clean_py_env_wipes(w) ==
  LET v == Log(w, "clean_py_env")
  IN IF v.venv.dir
     THEN {Log([v EXCEPT !.venv = VenvAbsent, !.classes = "absent"], "rmtree .venv")}
            \cup {perr(Log([v EXCEPT !.venv = x], "rmtree .venv"), "failed to remove venv")
                    : x \in {v.venv, VenvPartial}}
     ELSE {v}

clean_py_env(w) ==
  LET v == Log(w, "clean_py_env")
  IN IF v.venv.dir
     THEN {Log([v EXCEPT !.venv = VenvAbsent], "rmtree .venv")}
            \cup {perr(Log([v EXCEPT !.venv = x], "rmtree .venv"), "failed to remove venv")
                    : x \in {v.venv, VenvPartial}}
     ELSE {v}

(***************************************************************************)
(* compile_java.                                                           *)
(***************************************************************************)
\* The minimum-version gate that compile_java and run both apply to the
\* probed version string.
VersionGate(w) ==
  LET v == [w EXCEPT !.major = fetch_java_major_ver(w.vstr)]
  IN IF Truthy(v.major) /\ v.major < MIN_JAVA_VERSION
     THEN {perr(v, "Java version below minimum")}
     ELSE IF ~Truthy(v.major) /\ v.vstr \notin {None, Str(ErrorStr), Str(UnknownFormatStr)}
     THEN {pwarn(v, "could not determine Java major version")}
     ELSE {v}

\* os.makedirs(CLASSES_DIR, exist_ok=True)
MakedirsClasses(w) ==
  IF w.classes # "absent" THEN {w}
  ELSE {Log([w EXCEPT !.classes = "empty"], "makedirs classes"), Raise(w, "makedirs failed")}

\* SRC_DIR: not a directory, a directory without .java files, or with some.
SourceTree(w) ==
  IF w.src # "?" THEN {w} ELSE {[w EXCEPT !.src = s] : s \in {"absent", "nojava", "java"}}

\* os.listdir(LIB_DIR) returns the entries in arbitrary order.
Listdir(files) ==
  {l \in [1..Cardinality(files) -> files] : \A i, j \in 1..Cardinality(files) : l[i] = l[j] => i = j}

IsJar(f) == f.ext = "jar"

\* [os.path.join(LIB_DIR, f) for f in os.listdir(LIB_DIR) if f.endswith(".jar")]
LibJars(listing) == SelectSeq(listing, IsJar)

\* classpath_entries = [CLASSES_DIR] + lib_jars
Classpath(lib_jars) == <<ClassesEntry>> \o lib_jars

\* javac ... -d CLASSES_DIR: it may write class files whatever its end.
JavacProc(w) ==
  {[Exit(w, rc, NoOut) EXCEPT !.classes = c] : rc \in 0..MaxRc, c \in {w.classes, "nonempty"}}
    \cup {[Ends(w, "sigint") EXCEPT !.classes = "nonempty"]}

compile_sources(w) ==
  Then(IF w.lib.exists
       THEN {[w EXCEPT !.cp = Classpath(LibJars(l))] : l \in Listdir(w.lib.files)}
       ELSE {[pwarn(w, "lib directory not found") EXCEPT !.cp = Classpath(<<>>)]},
       LAMBDA v : Then(Exec(v, "javac", "javac", TRUE, JavacProc(v)), LAMBDA u : {Forget(u)}))

compile_java_no_early_return(w) ==
  Then(Then(Then(Then(Then(check_tool(Log(w, "compile_java"), "javac"),
                           fetch_java_version_str),
                      VersionGate),
                 MakedirsClasses),
            SourceTree),
       LAMBDA v :
         IF v.src = "absent" THEN {perr(v, "Java source directory not found")}
         ELSE compile_sources(v))

compile_java_sources_first(w) ==
  Then(Then(Then(Then(check_tool(Log(w, "compile_java"), "javac"),
                      fetch_java_version_str),
                 VersionGate),
            SourceTree),
       LAMBDA v :
         IF v.src = "absent" THEN {perr(v, "Java source directory not found")}
         ELSE IF v.src = "nojava" THEN {pwarn(v, "no .java files found")}
         ELSE Then(MakedirsClasses(v), compile_sources))

compile_java(w) ==
  Then(Then(Then(Then(Then(check_tool(Log(w, "compile_java"), "javac"),
                           fetch_java_version_str),
                      VersionGate),
                 MakedirsClasses),
            SourceTree),
       LAMBDA v :
         IF v.src = "absent" THEN {perr(v, "Java source directory not found")}
         ELSE IF v.src = "nojava" THEN {pwarn(v, "no .java files found")}
         ELSE compile_sources(v))

(***************************************************************************)
(* run.                                                                    *)
(***************************************************************************)
\* venv_env_vars: TRUE for the modified environment, FALSE for None.
venv_env_vars(w) == w.venv.dir /\ w.venv.exe

\* The launched application: it ends with some return code; the three
\* directories are not its business.
JavaAppProc(w) == {Exit(w, rc, NoOut) : rc \in 0..MaxRc}

run_cmd_list_opts_first(w) ==
  <<"java">> \o java_runtime_opts(w.major).java_opts
    \o java_runtime_opts(w.major).jade_opts
    \o <<"-cp", "classpath_str", JAVA_MAIN_CLASS>> \o <<JAVA_MAIN_AGENT>>

\* "classpath_str" stands for os.pathsep.join(classpath_entries), the entries
\* being cp.
run_cmd_list(w) ==
  <<"java">> \o java_runtime_opts(w.major).java_opts
    \o <<"-cp", "classpath_str", JAVA_MAIN_CLASS>>
    \o java_runtime_opts(w.major).jade_opts \o <<JAVA_MAIN_AGENT>>

\* try: run_cmd(run_cmd_list, check=False, env=java_env) ...
\* except KeyboardInterrupt: pinfo(...)
Launch_fatal(w) ==
  { IF u.st = "sigint" THEN [u EXCEPT !.st = "run", !.launch = "interrupted"]
    ELSE IF u.st # "run" THEN u
    ELSE IF u.rc = 0 THEN [u EXCEPT !.launch = "exited"]
    ELSE [perr(u, "Java application exited with nonzero code") EXCEPT !.launch = "exited"]
    : u \in Exec([w EXCEPT !.argv = run_cmd_list(w)], "java", "java jade.Boot", FALSE, JavaAppProc(w)) }

Launch_uncaught(w) ==
  { IF u.st # "run" THEN u
    ELSE IF u.rc = 0 THEN [u EXCEPT !.launch = "exited"]
    ELSE [pwarn(u, "Java application exited with nonzero code") EXCEPT !.launch = "exited"]
    : u \in Exec([w EXCEPT !.argv = run_cmd_list(w)], "java", "java jade.Boot", FALSE, JavaAppProc(w)) }

Launch(w) ==
  { IF u.st = "sigint" THEN [u EXCEPT !.st = "run", !.launch = "interrupted"]
    ELSE IF u.st # "run" THEN u
    ELSE IF u.rc = 0 THEN [u EXCEPT !.launch = "exited"]
    ELSE [pwarn(u, "Java application exited with nonzero code") EXCEPT !.launch = "exited"]
    : u \in Exec([w EXCEPT !.argv = run_cmd_list(w)], "java", "java jade.Boot", FALSE, JavaAppProc(w)) }

run_prechecks_absent_passes(w) ==
  IF ~w.venv.dir THEN {perr(w, "Python venv not found")}
  ELSE IF w.classes = "empty" THEN {perr(w, "Compiled classes dir is empty")}
  ELSE LET v == IF ~w.lib.exists \/ ~(\E f \in w.lib.files : IsJar(f))
                THEN pwarn(w, "lib missing or empty") ELSE w
       IN IF ~venv_env_vars(v)
          THEN {perr(pwarn(v, "venv Python executable not found"),
                     "Failed to create execution environment")}
          ELSE {v}

run_prechecks(w) ==
  IF ~w.venv.dir THEN {perr(w, "Python venv not found")}
  ELSE IF w.classes = "absent" THEN {perr(w, "Compiled classes dir not found")}
  ELSE IF w.classes = "empty" THEN {perr(w, "Compiled classes dir is empty")}
  ELSE LET v == IF ~w.lib.exists \/ ~(\E f \in w.lib.files : IsJar(f))
                THEN pwarn(w, "lib missing or empty") ELSE w
       IN IF ~venv_env_vars(v)
          THEN {perr(pwarn(v, "venv Python executable not found"),
                     "Failed to create execution environment")}
          ELSE {v}

run_classpath(w) ==
  IF w.lib.exists
  THEN {[w EXCEPT !.cp = Classpath(LibJars(l))] : l \in Listdir(w.lib.files)}
  ELSE {[w EXCEPT !.cp = Classpath(<<>>)]}

run(w) ==
  Then(Then(Then(Then(Then(check_tool(Log(w, "run"), "java"),
                           fetch_java_version_str),
                      VersionGate),
                 run_prechecks),
            run_classpath),
       Launch)

(***************************************************************************)
(* info.  Its probes' results are only printed.                            *)
(***************************************************************************)
info(w) ==
  Then(Then(Then(Then(fetch_java_version_str(Log(w, "info")),
                      fetch_mvn_version_str),
                 ScriptPython),
            LAMBDA v : fetch_py_version(v, TRUE, [rc |-> 0, ver |-> v.script])),
       LAMBDA v : IF v.venv.dir /\ v.venv.exe
                  THEN fetch_py_version(v, v.venv.exe, v.venv.py)
                  ELSE {v})

(***************************************************************************)
(* __main__: the dispatch of one command and the end of the script.        *)
(***************************************************************************)
Commands ==
  {"install", "compile", "run", "rebuild", "setup", "clean", "clean-java",
   "clean-python", "info"}

Dispatch_keeps_going(command, w) ==
  CASE command = "install" -> install(w)
    [] command = "compile" -> compile_java(w)
    [] command = "run" -> run(w)
    [] command = "rebuild" ->
         UNION {compile_java([v EXCEPT !.st = "run"]) : v \in clean_java_output(w)}
    [] command = "setup" -> UNION {compile_java([v EXCEPT !.st = "run"]) : v \in install(w)}
    [] command = "clean" -> UNION {clean_py_env([v EXCEPT !.st = "run"]) : v \in clean_java_output(w)}
    [] command = "clean-java" -> clean_java_output(w)
    [] command = "clean-python" -> clean_py_env(w)
    [] command = "info" -> info(w)

Dispatch_rebuild_keeps_classes(command, w) ==
  CASE command = "install" -> install(w)
    [] command = "compile" -> compile_java(w)
    [] command = "run" -> run(w)
    [] command = "rebuild" -> compile_java(w)
    [] command = "setup" -> Then(install(w), compile_java)
    [] command = "clean" -> Then(clean_java_output(w), clean_py_env)
    [] command = "clean-java" -> clean_java_output(w)
    [] command = "clean-python" -> clean_py_env(w)
    [] command = "info" -> info(w)

Dispatch(command, w) ==
  CASE command = "install" -> install(w)
    [] command = "compile" -> compile_java(w)
    [] command = "run" -> run(w)
    [] command = "rebuild" -> Then(clean_java_output(w), compile_java)
    [] command = "setup" -> Then(install(w), compile_java)
    [] command = "clean" -> Then(clean_java_output(w), clean_py_env)
    [] command = "clean-java" -> clean_java_output(w)
    [] command = "clean-python" -> clean_py_env(w)
    [] command = "info" -> info(w)

\* "except Exception as e: perr(...)"; otherwise the script runs off its end.
\* The locals of the functions that returned are gone.
Finish(w) ==
  LET v == [w EXCEPT !.out = NoOut, !.rc = IF w.launch = "exited" THEN w.rc ELSE 0,
                     !.mstr = None, !.pyver = <<>>]
  IN CASE v.st = "run" -> [v EXCEPT !.st = "ok"]
       [] v.st = "exc" -> perr(v, "unexpected error during command")
       [] OTHER -> v

main(command, f) == {Finish(w) : w \in Dispatch(command, NewWorld(f))}

\* The exit status of the script: 0, perr's exit_code 1, or, killed by the
\* uncaught KeyboardInterrupt, minus the signal's number.
ExitCode(w) == CASE w.st = "ok" -> 0 [] w.st = "fatal" -> 1 [] w.st = "sigint" -> -2

(***************************************************************************)
(* The state machine.  fs is the filesystem; phase is "idle" between two   *)
(* invocations of the script and "done" when one has just ended; res is    *)
(* the invocation that has just ended (its command, the filesystem it      *)
(* started from, its final world); prev is the command and the status of   *)
(* the invocation before it and the source tree it saw, recorded when      *)
(* prev.on.                                                                *)
(***************************************************************************)
NoRes == [cmd |-> "", pre |-> fs, w |-> NewWorld(fs)]
NoPrev == [on |-> FALSE, cmd |-> "", st |-> "", src |-> ""]
NoProbe == [pc |-> "off", s |-> None, major |-> NoneMajor, opts |-> <<>>]

Init ==
  /\ fs \in FsStates
  /\ phase = "idle"
  /\ res = NoRes
  /\ prev = NoPrev
  /\ probe = NoProbe

Invoke(command) ==
  /\ phase = "idle"
  /\ \E w \in main(command, fs) :
       /\ res' = [cmd |-> command, pre |-> fs, w |-> w]
       /\ fs' = FsOf(w)
  /\ phase' = "done"
  /\ UNCHANGED <<prev, probe>>

Install == Invoke("install")
Compile == Invoke("compile")
Run == Invoke("run")
Rebuild == Invoke("rebuild")
Setup == Invoke("setup")
Clean == Invoke("clean")
CleanJava == Invoke("clean-java")
CleanPython == Invoke("clean-python")
Info == Invoke("info")

\* No command, or "help": parser.print_help(); sys.exit(0).
Help ==
  /\ phase = "idle"
  /\ res' = [cmd |-> "help", pre |-> fs, w |-> [NewWorld(fs) EXCEPT !.st = "ok"]]
  /\ phase' = "done"
  /\ UNCHANGED <<fs, prev, probe>>

\* The script run by an interpreter that is not an allowed version:
\* sys.exit(1) before the command line is parsed.
WrongPython ==
  /\ phase = "idle"
  /\ \E v \in {<<3, 8>>, <<3, 11>>} :
       res' = [cmd |-> "?", pre |-> fs,
               w |-> [NewWorld(fs) EXCEPT !.st = "fatal", !.script = v,
                                          !.err = "script must be run with an allowed Python"]]
  /\ phase' = "done"
  /\ UNCHANGED <<fs, prev, probe>>

\* The script's process has ended; the next invocation can start.
Return ==
  /\ phase = "done"
  /\ phase' = "idle"
  /\ prev' = IF prev.on
             THEN [on |-> TRUE, cmd |-> res.cmd, st |-> res.w.st, src |-> res.w.src]
             ELSE prev
  /\ res' = [cmd |-> "", pre |-> fs, w |-> NewWorld(fs)]
  /\ UNCHANGED <<fs, probe>>

Next ==
  \/ Install \/ Compile \/ Run \/ Rebuild \/ Setup
  \/ Clean \/ CleanJava \/ CleanPython \/ Info
  \/ Help \/ WrongPython \/ Return

Spec == Init /\ [][Next]_vars

(***************************************************************************)
(* The atomic commands alone, with the history of the invocation before.   *)
(***************************************************************************)
InitSeq ==
  /\ fs \in FsStates
  /\ phase = "idle"
  /\ res = [cmd |-> "", pre |-> fs, w |-> NewWorld(fs)]
  /\ prev = [on |-> TRUE, cmd |-> "", st |-> "", src |-> ""]
  /\ probe = NoProbe

NextSeq ==
  \/ Install \/ Compile \/ Run
  \/ Clean \/ CleanJava \/ CleanPython
  \/ Return

SpecSeq == InitSeq /\ [][NextSeq]_vars

(***************************************************************************)
(* The pure functions of the version logic, on every version string of a   *)
(* small alphabet up to MaxLen characters, None and the two sentinels:     *)
(* fetch_java_major_ver, then java_runtime_opts of the major it returns.   *)
(***************************************************************************)
Chars == {"0", "1", "8", "9", ".", "_", "\n"}

VersionInputs ==
  {None, Str(ErrorStr), Str(UnknownFormatStr)}
    \cup {Str(s) : s \in UNION {[1..n -> Chars] : n \in 0..MaxLen}}

InitProbe ==
  /\ fs = [venv |-> VenvAbsent, classes |-> "absent", lib |-> LibAbsent]
  /\ phase = "probe"
  /\ res = [cmd |-> "", pre |-> fs, w |-> NewWorld(fs)]
  /\ prev = NoPrev
  /\ probe \in {[pc |-> "start", s |-> v, major |-> NoneMajor, opts |-> <<>>] : v \in VersionInputs}

ParseMajor ==
  /\ probe.pc = "start"
  /\ probe' = [probe EXCEPT !.pc = "parsed", !.major = fetch_java_major_ver(probe.s)]
  /\ UNCHANGED <<fs, phase, res, prev>>

BuildOpts ==
  /\ probe.pc = "parsed"
  /\ probe' = [probe EXCEPT !.pc = "done", !.opts = java_runtime_opts(probe.major).java_opts]
  /\ UNCHANGED <<fs, phase, res, prev>>

NextProbe == ParseMajor \/ BuildOpts

SpecProbe == InitProbe /\ [][NextProbe]_vars

(***************************************************************************)
(* Sessions: sequences of invocations that start in a project directory    *)
(* with neither an environment nor compiled output, with the history the   *)
(* directories have.  Of an invocation that has ended only its command,    *)
(* its status and whether it launched the application are kept.  In a      *)
(* session prev holds                                                      *)
(*   env, jc : venv.create was called / javac was spawned since the last   *)
(*             clean_py_env / clean_java_output step that did not fail;    *)
(*   cmd, st : for a run started right after a clean command has ended,    *)
(*             that command and its status.                                *)
(***************************************************************************)
CleanCommands == {"clean", "clean-java", "clean-python"}

\* The last position of e in tr, 0 when it is not there.
LastIndex(tr, e) ==
  LET S == {i \in DOMAIN tr : tr[i] = e}
  IN IF S = {} THEN 0 ELSE CHOOSE i \in S : \A j \in S : j <= i

\* Whether `made` has happened since the last `cleaned` step that did not
\* end by the error `failed`, after an invocation with trace tr.
Since(old, tr, made, cleaned, failed) ==
  LET m == LastIndex(tr, made)
      c == IF LastIndex(tr, failed) > 0 THEN 0 ELSE LastIndex(tr, cleaned)
  IN IF m > c THEN TRUE ELSE IF c > 0 THEN FALSE ELSE old

Brief(w) == [NewWorld(FsOf(w)) EXCEPT !.st = w.st, !.launch = w.launch]

InitSession ==
  /\ fs \in {f \in FsStates : f.venv = VenvAbsent /\ f.classes = "absent" /\ f.lib = LibAbsent}
  /\ phase = "idle"
  /\ res = [cmd |-> "", pre |-> fs, w |-> NewWorld(fs)]
  /\ prev = [on |-> TRUE, cmd |-> "", st |-> "", env |-> FALSE, jc |-> FALSE]
  /\ probe = NoProbe

\* One invocation of the command, started right after the command `after`
\* has ended with status st ("" when what it follows is not recorded).
Invocation(command, after, st) ==
  \E w \in main(command, fs) :
    /\ res' = [cmd |-> command, pre |-> fs, w |-> Brief(w)]
    /\ fs' = FsOf(w)
    /\ prev' = [prev EXCEPT
         !.cmd = after, !.st = st,
         !.env = Since(@, w.trace, "venv.create", "clean_py_env", "error: failed to remove venv"),
         !.jc = Since(@, w.trace, "javac", "clean_java_output", "error: failed to remove classes")]
    /\ phase' = "done"
    /\ UNCHANGED probe

InSession(command) == phase = "idle" /\ Invocation(command, "", "")

SessionInstall == InSession("install")
SessionCompile == InSession("compile")
SessionRun == InSession("run")
SessionRebuild == InSession("rebuild")
SessionSetup == InSession("setup")
SessionClean == InSession("clean")
SessionCleanJava == InSession("clean-java")
SessionCleanPython == InSession("clean-python")

\* run as the very next invocation after a clean command.
SessionRunAfterClean ==
  /\ phase = "done" /\ res.cmd \in CleanCommands
  /\ Invocation("run", res.cmd, res.w.st)

SessionReturn ==
  /\ phase = "done"
  /\ phase' = "idle"
  /\ prev' = [prev EXCEPT !.cmd = "", !.st = ""]
  /\ res' = [cmd |-> "", pre |-> fs, w |-> NewWorld(fs)]
  /\ UNCHANGED <<fs, probe>>

NextSession ==
  \/ SessionInstall \/ SessionCompile \/ SessionRun \/ SessionRebuild \/ SessionSetup
  \/ SessionClean \/ SessionCleanJava \/ SessionCleanPython
  \/ SessionRunAfterClean \/ SessionReturn

SpecSession == InitSession /\ [][NextSession]_vars

(***************************************************************************)
(* A composite command against its atomic commands invoked one after the   *)
(* other, on the same host.  The host of an invocation is what it found on *)
(* the search path and in the project directory; the outcome of one is the *)
(* filesystem it leaves, its exit code and the host it saw.                *)
(***************************************************************************)
HostOf(w) ==
  [ found |-> w.found, missing |-> w.missing, platform |-> w.platform,
    script |-> w.script, pom |-> w.pom, req |-> w.req, src |-> w.src ]

\* The world of an invocation that starts on a host already seen in part.
OnHost(f, h) ==
  [ NewWorld(f) EXCEPT !.found = h.found, !.missing = h.missing, !.platform = h.platform,
                       !.script = h.script, !.pom = h.pom, !.req = h.req, !.src = h.src ]

Outcome(w) == [fs |-> FsOf(w), exit |-> ExitCode(w), host |-> HostOf(w)]

\* elif args.command == "rebuild": clean_java_output(); compile_java() ...
Parts(command) ==
  CASE command = "rebuild" -> <<"clean-java", "compile">>
    [] command = "setup" -> <<"install", "compile">>
    [] command = "clean" -> <<"clean-java", "clean-python">>

\* One invocation of the command.
Whole(command, f) == {Outcome(w) : w \in main(command, f)}

\* One invocation of the first atomic command and, when it exited with
\* code 0, one of the second, started in the filesystem the first left.
InParts(command, f) ==
  UNION { IF o.exit = 0
          THEN {Outcome(Finish(w)) : w \in Dispatch(Parts(command)[2], OnHost(o.fs, o.host))}
          ELSE {o}
          : o \in Whole(Parts(command)[1], f) }

InitEquiv ==
  /\ fs \in FsStates
  /\ phase = "equiv"
  /\ res = [cmd |-> "", pre |-> fs, w |-> NewWorld(fs)]
  /\ prev = NoPrev
  /\ probe \in {[pc |-> "start", cmd |-> c, whole |-> {}, parts |-> {}]
                  : c \in {"rebuild", "setup", "clean"}}

RunWhole ==
  /\ probe.pc = "start"
  /\ probe' = [probe EXCEPT !.pc = "whole", !.whole = Whole(probe.cmd, fs)]
  /\ UNCHANGED <<fs, phase, res, prev>>

RunParts ==
  /\ probe.pc = "whole"
  /\ probe' = [probe EXCEPT !.pc = "both", !.parts = InParts(probe.cmd, fs)]
  /\ UNCHANGED <<fs, phase, res, prev>>

NextEquiv == RunWhole \/ RunParts

SpecEquiv == InitEquiv /\ [][NextEquiv]_vars

(***************************************************************************)
(* Properties.                                                             *)
(***************************************************************************)
Done == phase = "done"
Has(e) == \E i \in DOMAIN res.w.trace : res.w.trace[i] = e
Launched == Has("java jade.Boot")

SixAddOpens ==
  << "--add-opens", "java.base/java.lang=ALL-UNNAMED",
     "--add-opens", "java.base/java.io=ALL-UNNAMED",
     "--add-opens", "java.base/java.util=ALL-UNNAMED",
     "--add-opens", "java.base/java.util.concurrent=ALL-UNNAMED",
     "--add-opens", "java.base/sun.nio.ch=ALL-UNNAMED",
     "--add-opens", "java.base/java.net=ALL-UNNAMED" >>

HasAddOpens(opts) == \E i \in DOMAIN opts : opts[i] = "--add-opens"

\* C1: for every detected major version v (an integer, or unknown),
\* java_runtime_opts returns options containing --add-opens exactly when v
\* is known and v >= 9, and then the options are the three base options
\* followed by the same six "--add-opens <module>=ALL-UNNAMED" pairs,
\* whatever v is.
C1_AddOpensIffAtLeast9 ==
  probe.pc = "done" =>
    /\ HasAddOpens(probe.opts) <=> (probe.major # NoneMajor /\ probe.major >= 9)
    /\ HasAddOpens(probe.opts) => probe.opts = base_java_opts \o SixAddOpens
    /\ ~HasAddOpens(probe.opts) => probe.opts = base_java_opts

C1_Witness ==
  probe.pc = "done" /\ probe.major = 11 /\ Len(probe.opts) = 15 /\ HasAddOpens(probe.opts)

\* What the claim C2 says the major version of a version string is: none
\* for None and the sentinels; X for a string whose leading integer group is
\* 1 followed by ".X"; the leading integer group for every other string that
\* begins with one.
ClaimedMajor(v) ==
  IF ~v.some \/ v.s \in {ErrorStr, UnknownFormatStr} THEN NoneMajor
  ELSE LET s == v.s
           n1 == DigitRun(s, 1)
           legacy == /\ IntOf(SubSeq(s, 1, n1)) = 1
                     /\ Len(s) >= n1 + 2 /\ s[n1 + 1] = "." /\ IsDigit(s[n1 + 2])
       IN IF legacy THEN IntOf(SubSeq(s, n1 + 2, n1 + 1 + DigitRun(s, n1 + 2)))
          ELSE IntOf(SubSeq(s, 1, n1))

BeginsWithInteger(v) == v.some /\ Len(v.s) >= 1 /\ IsDigit(v.s[1])

\* C2: fetch_java_major_ver maps every legacy-style string "1.X..." to X,
\* every other string that begins with a decimal integer group to that
\* group, and None, "Error" and "Unknown format" to no version.
C2_ParsesMajor ==
  (probe.pc = "parsed" /\ (BeginsWithInteger(probe.s) \/ ~probe.s.some
                             \/ probe.s.s \in {ErrorStr, UnknownFormatStr}))
    => probe.major = ClaimedMajor(probe.s)

\* C2 on the strings whose groups are separated by dots alone.
C2_DotSeparated ==
  (probe.pc = "parsed" /\ BeginsWithInteger(probe.s)
     /\ \A i \in DOMAIN probe.s.s : probe.s.s[i] \in {"0", "1", "8", "9", "."})
    => probe.major = ClaimedMajor(probe.s)

\* C3: a run that starts without the compiled-output directory never spawns
\* the application and ends by a fatal error, exit code 1 (or, before it
\* reaches that, by the user's interrupt of the version probe).
C3_NoClassesDirNoLaunch ==
  (Done /\ res.cmd = "run" /\ res.pre.classes = "absent")
    => /\ ~Launched
       /\ res.w.launch = "none"
       /\ res.w.argv = <<>>
       /\ ExitCode(res.w) = 1 \/ res.w.st = "sigint"

C3_Witness ==
  /\ Done /\ res.cmd = "run" /\ res.pre.classes = "absent"
  /\ res.w.err = "Compiled classes dir not found"
  /\ Has("java -version") /\ ExitCode(res.w) = 1

\* C4: whenever run spawns the application, java was found on the search
\* path, the detected major version is not below MIN_JAVA_VERSION, the
\* environment directory exists, and the compiled-output directory exists
\* and is not empty.
C4_LaunchPreconditions ==
  (Done /\ res.cmd = "run" /\ Launched)
    => /\ "java" \in res.w.found
       /\ res.w.major = NoneMajor \/ res.w.major >= MIN_JAVA_VERSION
       /\ res.pre.venv.dir
       /\ res.pre.classes = "nonempty"

\* C4 without the version: at the spawn java was found, the environment
\* directory and its interpreter exist, the compiled-output directory is
\* not empty.
C4_LaunchPreconditionsButVersion ==
  (Done /\ res.cmd = "run" /\ Launched)
    => /\ "java" \in res.w.found
       /\ res.pre.venv.dir /\ res.pre.venv.exe
       /\ res.pre.classes = "nonempty"

(***************************************************************************)
(* The filesystem that a trace accounts for: each directory's possible     *)
(* states after the calls and processes of the trace from position i on.   *)
(***************************************************************************)
IsError(e) ==
  e \in { "error: tool not found: mvn", "error: tool not found: java",
          "error: tool not found: javac", "error: command not found",
          "error: unexpected error running command", "error: command failed",
          "error: venv created but interpreter missing", "error: failed to create venv",
          "error: Python executable not found in venv", "error: requirements.txt not found",
          "error: failed to remove classes", "error: failed to remove venv",
          "error: Java version below minimum", "error: Java source directory not found",
          "error: Python venv not found", "error: Compiled classes dir not found",
          "error: Compiled classes dir is empty",
          "error: Failed to create execution environment",
          "error: unexpected error during command" }

RECURSIVE ClassesAfter(_, _, _)
ClassesAfter(c, tr, i) ==
  IF i > Len(tr) THEN {c}
  ELSE LET raised == i < Len(tr) /\ IsError(tr[i + 1])
           next == CASE tr[i] = "rmtree classes" -> IF raised THEN {c, "empty"} ELSE {"absent"}
                     [] tr[i] = "makedirs classes" -> {"empty"}
                     [] tr[i] = "javac" -> {c, "nonempty"}
                     [] OTHER -> {c}
       IN UNION {ClassesAfter(d, tr, i + 1) : d \in next}

RECURSIVE VenvAfter(_, _, _)
VenvAfter(c, tr, i) ==
  IF i > Len(tr) THEN {c}
  ELSE LET raised == i < Len(tr) /\ IsError(tr[i + 1])
           next == CASE tr[i] = "rmtree .venv" -> IF raised THEN {c, VenvPartial} ELSE {VenvAbsent}
                     [] tr[i] = "venv.create" ->
                          IF raised
                          THEN {VenvAbsent, VenvPartial}
                                 \cup {VenvWith([rc |-> 0, ver |-> v]) : v \in ALLOWED_PYTHON_VERSIONS}
                          ELSE {VenvWith([rc |-> 0, ver |-> v]) : v \in ALLOWED_PYTHON_VERSIONS}
                     [] OTHER -> {c}
       IN UNION {VenvAfter(d, tr, i + 1) : d \in next}

RECURSIVE LibAfter(_, _, _)
LibAfter(c, tr, i) ==
  IF i > Len(tr) THEN {c}
  ELSE LET next == CASE tr[i] = "makedirs lib" -> {[exists |-> TRUE, files |-> {}]}
                     [] tr[i] = "mvn dependency:copy-dependencies" ->
                          {[c EXCEPT !.files = @ \cup J] : J \in SUBSET Jars}
                     [] OTHER -> {c}
       IN UNION {LibAfter(d, tr, i + 1) : d \in next}

Composite == {"setup", "rebuild", "clean"}

\* C5: in a composite command, a fatal error is the last thing that happens
\* (no step, call or process is started after it), the script exits with
\* code 1, and the filesystem is what the calls and processes made before
\* the error left: nothing is undone.
C5_FailedCompositeStops ==
  (Done /\ res.cmd \in Composite)
    => LET tr == res.w.trace
       IN /\ \A i \in DOMAIN tr : IsError(tr[i]) => (i = Len(tr) /\ res.w.st = "fatal")
          /\ res.w.st = "fatal" =>
               /\ ExitCode(res.w) = 1
               /\ tr # <<>> /\ IsError(tr[Len(tr)])
               /\ fs.classes \in ClassesAfter(res.pre.classes, tr, 1)
               /\ fs.venv \in VenvAfter(res.pre.venv, tr, 1)
               /\ fs.lib \in LibAfter(res.pre.lib, tr, 1)

C5_Witness ==
  /\ Done /\ res.cmd = "rebuild" /\ res.w.st = "fatal"
  /\ res.pre.classes = "nonempty" /\ Has("rmtree classes") /\ Has("compile_java")
  /\ ~Has("makedirs classes") /\ fs.classes = "absent"

Compatible(v) == v.dir /\ v.exe /\ v.py.rc = 0 /\ v.py.ver \in ALLOWED_PYTHON_VERSIONS

\* C6: an install that follows an install and finds the environment
\* directory with an interpreter of an allowed version neither removes nor
\* creates the environment, and leaves it as it found it.
C6_SecondInstallKeepsVenv ==
  (Done /\ res.cmd = "install" /\ prev.cmd = "install" /\ Compatible(res.pre.venv))
    => /\ ~Has("rmtree .venv") /\ ~Has("venv.create")
       /\ fs.venv = res.pre.venv
       /\ Compatible(fs.venv)

C6_Witness ==
  /\ Done /\ res.cmd = "install" /\ prev.cmd = "install" /\ prev.st = "ok"
  /\ Compatible(res.pre.venv) /\ res.w.st = "ok" /\ Has("pip install -r requirements.txt")
  /\ Compatible(fs.venv)

RemovalFailed == Has("error: failed to remove classes") \/ Has("error: failed to remove venv")
NoRmtree == ~Has("rmtree classes") /\ ~Has("rmtree .venv")

\* C7: a clean in which no removal fails exits 0 and leaves neither the
\* compiled-output nor the environment directory; a clean that follows such
\* a clean finds both absent, removes nothing, changes nothing and exits 0.
\* Likewise clean-java and clean-python, each for its own directory.
C7_CleanIdempotent ==
  /\ (Done /\ res.cmd = "clean" /\ ~RemovalFailed)
       => (ExitCode(res.w) = 0 /\ fs.classes = "absent" /\ fs.venv = VenvAbsent)
  /\ (Done /\ res.cmd = "clean-java" /\ ~RemovalFailed)
       => (ExitCode(res.w) = 0 /\ fs.classes = "absent")
  /\ (Done /\ res.cmd = "clean-python" /\ ~RemovalFailed)
       => (ExitCode(res.w) = 0 /\ fs.venv = VenvAbsent)
  /\ (Done /\ res.cmd \in {"clean", "clean-java", "clean-python"}
        /\ prev.cmd = res.cmd /\ prev.st = "ok")
       => (ExitCode(res.w) = 0 /\ NoRmtree /\ fs = res.pre)

C7_Witness ==
  /\ Done /\ res.cmd = "clean" /\ prev.cmd = "clean" /\ prev.st = "ok"
  /\ ExitCode(res.w) = 0 /\ fs = res.pre /\ fs.classes = "absent" /\ ~fs.venv.dir

\* C8 as claimed: compile on a source tree without source files does not
\* invoke the compiler, exits 0 and leaves the filesystem as it was.
C8_EmptyTreeChangesNothing ==
  (Done /\ res.cmd = "compile" /\ res.w.src = "nojava")
    => (~Has("javac") /\ ExitCode(res.w) = 0 /\ fs = res.pre)

\* C8 amended: compile that finds the source root without source files does
\* not invoke the compiler and exits 0; it leaves the library cache and the
\* environment as they were, and the compiled-output directory too, except
\* that it has created it, empty, when it was absent.
C8_EmptyTreeOnlyCreatesClassesDir ==
  (Done /\ res.cmd = "compile" /\ res.w.src = "nojava")
    => /\ ~Has("javac") /\ ExitCode(res.w) = 0
       /\ fs.lib = res.pre.lib /\ fs.venv = res.pre.venv
       /\ fs.classes = IF res.pre.classes = "absent" THEN "empty" ELSE res.pre.classes
       /\ res.pre.classes = "absent" <=> Has("makedirs classes")

C8_Witness ==
  /\ Done /\ res.cmd = "compile" /\ res.w.src = "nojava" /\ ExitCode(res.w) = 0
  /\ res.pre.classes = "absent" /\ fs.classes = "empty" /\ Has("warn: no .java files found")

\* C9: the classpath that compile and run assemble is the compiled-output
\* directory followed by the .jar archives of the library cache in sorted
\* order.
C9_ClasspathSorted ==
  (Done /\ res.cmd \in {"compile", "run"} /\ res.w.st = "ok"
     /\ (Has("javac") \/ Launched))
    => /\ res.w.cp # <<>> /\ res.w.cp[1] = ClassesEntry
       /\ \A i \in 2..Len(res.w.cp) : IsJar(res.w.cp[i])
       /\ \A i, j \in 2..Len(res.w.cp) : i < j => res.w.cp[i].stem < res.w.cp[j].stem

\* C10: info exits with code 0 whatever tools are on the search path,
\* however their version probes end, and whatever the environment
\* directory holds.  (The user's interrupt, and a child that cannot be
\* executed at all, are not among the states the claim lists.)
C10_InfoExitsZero ==
  (Done /\ res.cmd = "info" /\ res.w.st # "sigint"
     /\ res.w.err # "unexpected error running command")
    => ExitCode(res.w) = 0

(***************************************************************************)
(* The version gate of compile and run.                                    *)
(***************************************************************************)
Gated == Done /\ res.cmd \in {"compile", "run"} /\ res.w.vstr.some
ParsedMajor == fetch_java_major_ver(res.w.vstr)

\* C11: in compile and run, a version probe whose result has no major
\* version ("Unknown format", "Error", or a string without a leading
\* integer) is fatal: the command exits with code 1, the compiler is not
\* invoked and the application is not launched.
C11_UnparseableIsFatal ==
  (Gated /\ ParsedMajor = NoneMajor)
    => (ExitCode(res.w) = 1 /\ ~Has("javac") /\ ~Launched)

\* What the code does with such a probe result: the gate lets it through,
\* with a warning when the result is a string of its own and silently when
\* it is one of the two sentinels.
C11_UnparseablePassesGate ==
  (Gated /\ ParsedMajor = NoneMajor)
    => /\ res.w.err # "Java version below minimum"
       /\ Has("warn: could not determine Java major version")
            <=> res.w.vstr \notin {Str(ErrorStr), Str(UnknownFormatStr)}

\* C12: for every parsed major version m with 0 <= m < MIN_JAVA_VERSION,
\* compile aborts with exit code 1 before it creates the compiled-output
\* directory and before the compiler, and run aborts before the launch; for
\* every m >= MIN_JAVA_VERSION the gate passes.
C12_BelowMinimumIsFatal ==
  /\ (Gated /\ ParsedMajor >= 0 /\ ParsedMajor < MIN_JAVA_VERSION)
       => /\ ExitCode(res.w) = 1 /\ res.w.err = "Java version below minimum"
          /\ ~Has("makedirs classes") /\ ~Has("javac") /\ ~Launched
  /\ (Gated /\ ParsedMajor >= MIN_JAVA_VERSION)
       => res.w.err # "Java version below minimum"

\* C12 for the versions the gate's test does see, 1 <= m < MIN_JAVA_VERSION.
C12_PositiveBelowMinimumIsFatal ==
  /\ (Gated /\ ParsedMajor >= 1 /\ ParsedMajor < MIN_JAVA_VERSION)
       => /\ ExitCode(res.w) = 1 /\ res.w.err = "Java version below minimum"
          /\ ~Has("makedirs classes") /\ ~Has("javac") /\ ~Launched
  /\ (Gated /\ ParsedMajor >= MIN_JAVA_VERSION)
       => res.w.err # "Java version below minimum"

\* C13: an install that finds no pom.xml does not fail in phase 1, whatever
\* tools are on the search path: it warns, does not run mvn, does not touch
\* the library cache, and goes on to phase 2.
C13_NoPomNeverFailsPhase1 ==
  (Done /\ res.cmd = "install" /\ res.w.pom = "absent")
    => /\ Has("warn: pom.xml not found, skipping Java dependencies")
       /\ ~Has("error: tool not found: mvn")
       /\ ~Has("mvn dependency:copy-dependencies") /\ ~Has("makedirs lib")
       /\ fs.lib = res.pre.lib

\* C13 when mvn is on the search path.
C13_NoPomWithMvnSkipsFetch ==
  (Done /\ res.cmd = "install" /\ res.w.pom = "absent" /\ "mvn" \in res.w.found)
    => /\ Has("warn: pom.xml not found, skipping Java dependencies")
       /\ ~Has("mvn dependency:copy-dependencies") /\ ~Has("makedirs lib")
       /\ fs.lib = res.pre.lib

(***************************************************************************)
(* The phases of install, as the trace shows them.                         *)
(***************************************************************************)
Installs == Done /\ res.cmd \in {"install", "setup"}

\* The part of the trace that install wrote: in a setup, what precedes the
\* start of compile_java.
InstallEnd ==
  IF Has("compile_java")
  THEN CHOOSE i \in DOMAIN res.w.trace : res.w.trace[i] = "compile_java"
  ELSE Len(res.w.trace) + 1

PhaseOf(e) ==
  CASE e \in {"warn: pom.xml not found, skipping Java dependencies", "makedirs lib",
              "mvn dependency:copy-dependencies", "error: tool not found: mvn"} -> 1
    [] e \in {"warn: removing incomplete venv", "rmtree .venv", "venv.create",
              "python --version", "warn: could not parse Python version",
              "warn: venv Python version mismatch", "warn: venv Python version unknown",
              "pip install --upgrade pip", "pip install -r requirements.txt",
              "error: requirements.txt not found",
              "error: Python executable not found in venv"} -> 2
    [] e \in {"nltk.download", "warn: NLTK data download failed"} -> 3
    [] OTHER -> 0

\* C14: install runs its phases in the order 1, 2, 3; the corpus fetch of
\* phase 3 is spawned only after the package install of phase 2 has exited
\* with code 0; and when requirements.txt is missing install ends by a
\* fatal error, exit code 1, and phase 3 does not run.
C14_PhasesInOrder ==
  Installs =>
    LET tr == res.w.trace
    IN /\ \A i, j \in 1..(InstallEnd - 1) :
            (i < j /\ PhaseOf(tr[i]) # 0 /\ PhaseOf(tr[j]) # 0) => PhaseOf(tr[i]) <= PhaseOf(tr[j])
       /\ Has("nltk.download") =>
            /\ res.w.pip_rc = 0
            /\ \E i \in 3..(InstallEnd - 1) :
                 /\ tr[i] = "nltk.download"
                 /\ tr[i - 1] = "pip install -r requirements.txt"
                 /\ tr[i - 2] = "pip install --upgrade pip"
       /\ res.w.req = "absent" =>
            /\ ExitCode(res.w) = 1 /\ res.w.err = "requirements.txt not found"
            /\ tr[Len(tr)] = "error: requirements.txt not found"
            /\ ~Has("pip install -r requirements.txt") /\ ~Has("nltk.download")
            /\ ~Has("compile_java")

C14_Witness ==
  /\ Installs /\ res.cmd = "install" /\ res.w.st = "ok"
  /\ Has("mvn dependency:copy-dependencies") /\ Has("venv.create")
  /\ Has("nltk.download") /\ res.w.pip_rc = 0 /\ res.w.nltk_rc = 0

\* C15: when the corpus fetch of phase 3 returns a nonzero exit code,
\* install warns and does nothing else: it ends normally, the command
\* install exits with code 0, and in a setup compile_java is started.
C15_CorpusFailureIsWarning ==
  (Installs /\ res.w.nltk_rc \notin {NoRc, 0})
    => LET tr == res.w.trace
       IN /\ res.w.pip_rc = 0
          /\ tr[InstallEnd - 1] = "warn: NLTK data download failed"
          /\ tr[InstallEnd - 2] = "nltk.download"
          /\ \A i \in 1..(InstallEnd - 1) : ~IsError(tr[i])
          /\ res.cmd = "install" => (res.w.st = "ok" /\ ExitCode(res.w) = 0)
          /\ res.cmd = "setup" => Has("compile_java")

C15_Witness ==
  /\ Installs /\ res.cmd = "setup" /\ res.w.nltk_rc = MaxRc
  /\ Has("warn: NLTK data download failed") /\ Has("javac") /\ res.w.st = "ok"

(***************************************************************************)
(* ensure_venv, which install calls at the start of its phase 2.           *)
(***************************************************************************)
\* What follows ensure_venv when it has returned: the upgrade of pip, or
\* the failure to start it.
AfterEnsureVenv == {"pip install --upgrade pip", "error: unexpected error running command"}

\* C16: when the environment directory and its interpreter exist,
\* ensure_venv neither removes nor creates the environment and leaves it as
\* it is, whatever the interpreter answers to the version probe; an answer
\* outside the allowed versions, or one that cannot be parsed, gives a
\* warning and ensure_venv returns.
C16_PresentVenvIsKept ==
  (Installs /\ res.pre.venv.dir /\ res.pre.venv.exe)
    => LET tr == res.w.trace
           py == res.pre.venv.py
       IN /\ ~Has("rmtree .venv") /\ ~Has("venv.create")
          /\ fs.venv = res.pre.venv
          /\ \A i \in DOMAIN tr :
               (tr[i] = "python --version" /\ i < Len(tr) /\ py.rc = 0) =>
                 IF py.ver \in ALLOWED_PYTHON_VERSIONS THEN tr[i + 1] \in AfterEnsureVenv
                 ELSE IF py.ver = <<>>
                 THEN /\ tr[i + 1] = "warn: could not parse Python version"
                      /\ tr[i + 2] = "warn: venv Python version unknown"
                      /\ tr[i + 3] \in AfterEnsureVenv
                 ELSE /\ tr[i + 1] = "warn: venv Python version mismatch"
                      /\ tr[i + 2] \in AfterEnsureVenv

C16_Witness ==
  /\ Installs /\ res.cmd = "install" /\ res.pre.venv = VenvWith([rc |-> 0, ver |-> <<3, 8>>])
  /\ Has("warn: venv Python version mismatch") /\ res.w.st = "ok" /\ fs.venv = res.pre.venv

CreationErrors ==
  {"error: failed to create venv", "error: venv created but interpreter missing"}

\* C17: when the environment directory is absent or has no interpreter,
\* ensure_venv removes the directory if there is one and then creates the
\* environment; when it returns, the directory and its interpreter exist;
\* when the creation fails the command ends with exit code 1.
C17_MissingVenvIsCreated ==
  (Installs /\ ~(res.pre.venv.dir /\ res.pre.venv.exe))
    => LET tr == res.w.trace
       IN /\ ~res.pre.venv.dir => ~Has("rmtree .venv")
          /\ \A i \in DOMAIN tr :
               /\ (tr[i] = "venv.create" /\ res.pre.venv.dir)
                    => (i > 2 /\ tr[i - 1] = "rmtree .venv"
                          /\ tr[i - 2] = "warn: removing incomplete venv")
               /\ tr[i] = "rmtree .venv"
                    => (i < Len(tr) /\ tr[i + 1] \in {"venv.create", "error: unexpected error during command"})
               /\ tr[i] = "venv.create"
                    => /\ i < Len(tr)
                       /\ tr[i + 1] \in CreationErrors \cup AfterEnsureVenv
                       /\ tr[i + 1] \in CreationErrors
                            => (i + 1 = Len(tr) /\ ExitCode(res.w) = 1)
                       /\ tr[i + 1] \in AfterEnsureVenv
                            => (fs.venv.dir /\ fs.venv.exe)
          /\ (Has("venv.create") /\ ~(fs.venv.dir /\ fs.venv.exe)) => ExitCode(res.w) = 1
          /\ Has("pip install --upgrade pip") => Has("venv.create")

C17_Witness ==
  /\ Installs /\ res.cmd = "install" /\ res.pre.venv = VenvPartial
  /\ Has("rmtree .venv") /\ Has("venv.create") /\ res.w.st = "ok"
  /\ fs.venv.dir /\ fs.venv.exe

(***************************************************************************)
(* The launch of the application by run.                                   *)
(***************************************************************************)
NoErrors == \A i \in DOMAIN res.w.trace : ~IsError(res.w.trace[i])
LastEvent == res.w.trace[Len(res.w.trace)]

\* C18: when the launched application ends with a nonzero exit code, run
\* prints a warning, raises no fatal error and exits with code 0.
C18_NonzeroExitIsWarning ==
  (Done /\ res.cmd = "run" /\ res.w.launch = "exited" /\ res.w.rc # 0)
    => /\ LastEvent = "warn: Java application exited with nonzero code"
       /\ NoErrors
       /\ res.w.st = "ok" /\ ExitCode(res.w) = 0

C18_Witness ==
  /\ Done /\ res.cmd = "run" /\ res.w.launch = "exited" /\ res.w.rc = MaxRc
  /\ Launched /\ ExitCode(res.w) = 0

FrameworkOptions ==
  << "-jade_domain_df_maxresult", "1500",
     "-jade_core_messaging_MessageManager_poolsize", "10",
     "-jade_core_messaging_MessageManager_maxqueuesize", "2000000000",
     "-jade_core_messaging_MessageManager_deliverytimethreshold", "10000",
     "-jade_domain_df_autocleanup", "true", "-local-port", "35240" >>

\* C19: the argument vector of the launch is java, the three base options,
\* the six --add-opens pairs when the detected major version is known and
\* >= 9 and nothing otherwise, -cp and the classpath, jade.Boot, the twelve
\* framework option tokens, and the agent specification last; the classpath
\* is the compiled-output directory and the .jar archives of the library
\* cache.
C19_LaunchArguments ==
  (Done /\ res.cmd = "run" /\ Launched)
    => /\ res.w.argv =
            <<"java", "-Xms256m", "-Xmx1424m", "-XX:-UseGCOverheadLimit">>
              \o (IF res.w.major # NoneMajor /\ res.w.major >= 9 THEN SixAddOpens ELSE <<>>)
              \o <<"-cp", "classpath_str", "jade.Boot">>
              \o FrameworkOptions
              \o <<"controller:TwitterGatherDataFollowers.userRyersonU.ControllerAgent">>
       /\ res.w.major = fetch_java_major_ver(res.w.vstr)
       /\ res.w.cp[1] = ClassesEntry
       /\ {res.w.cp[i] : i \in 2..Len(res.w.cp)} = {f \in res.pre.lib.files : IsJar(f)}
       /\ Len(res.w.cp) = 1 + Cardinality({f \in res.pre.lib.files : IsJar(f)})

C19_Witness ==
  /\ Done /\ res.cmd = "run" /\ Launched /\ res.w.major = 17
  /\ Len(res.w.argv) = 32 /\ res.w.argv[5] = "--add-opens" /\ Len(res.w.cp) = 1 + MaxJars

\* The external processes other than the launched application.
OtherProcesses ==
  { "java -version", "mvn --version", "python --version",
    "mvn dependency:copy-dependencies", "pip install --upgrade pip",
    "pip install -r requirements.txt", "nltk.download", "javac" }

\* C20: an interrupt during the wait on the launched application is caught:
\* run reports no fatal error and exits with code 0.  An interrupt during
\* the wait on any other process is not caught: the interrupted process is
\* the last thing the command did.
C20_InterruptCaughtOnlyAtLaunch ==
  /\ (Done /\ res.w.launch = "interrupted")
       => /\ res.cmd = "run" /\ LastEvent = "java jade.Boot"
          /\ NoErrors /\ res.w.st = "ok" /\ ExitCode(res.w) = 0
  /\ (Done /\ res.w.st = "sigint")
       => /\ LastEvent \in OtherProcesses
          /\ NoErrors /\ ExitCode(res.w) # 0 /\ res.w.launch = "none"

C20_Witness ==
  /\ Done /\ res.cmd = "run" /\ res.w.launch = "interrupted" /\ Launched
  /\ res.w.st = "ok" /\ ExitCode(res.w) = 0

\* An interrupt that is not caught: setup, interrupted in the package
\* install, never starts compile_java.
C20_WitnessUncaught ==
  /\ Done /\ res.cmd = "setup" /\ res.w.st = "sigint"
  /\ LastEvent = "pip install -r requirements.txt" /\ ~Has("compile_java")

\* C21: a composite command ends in the same filesystem with the same exit
\* code as its first atomic command invoked alone followed, when that one
\* succeeded, by its second: rebuild as clean-java then compile, setup as
\* install then compile, clean as clean-java then clean-python; from every
\* filesystem, on every host, for every outcome of the processes.
C21_CompositeIsConcatenation ==
  probe.pc = "both" => probe.whole = probe.parts

C21_Witness ==
  /\ probe.pc = "both" /\ probe.cmd = "setup" /\ fs.classes = "absent" /\ ~fs.venv.dir
  /\ \E o \in probe.parts :
       o.exit = 0 /\ o.fs.classes = "nonempty" /\ o.fs.venv.exe /\ o \in probe.whole
  /\ \E o \in probe.parts : o.exit = 1 /\ o.fs.venv.exe /\ o.fs.classes = "absent"

\* C24 as claimed: in a session that starts without environment and
\* without compiled output, run launches the application only if an
\* install or setup has created the environment since the most recent
\* clean or clean-python, and the compiler has been invoked since the most
\* recent clean, clean-java or clean step of rebuild; and a run directly
\* after clean, clean-java or clean-python launches nothing and ends by a
\* fatal error (or by the user's interrupt of its version probe).
C24_LaunchNeedsInstallAndCompile ==
  (Done /\ res.cmd = "run")
    => /\ res.w.launch # "none" => (prev.env /\ prev.jc)
       /\ prev.cmd \in CleanCommands
            => (res.w.launch = "none" /\ res.w.st \in {"fatal", "sigint"})

\* C24 amended: the same, the clean steps being those that did not fail,
\* and the run directly after a clean, clean-java or clean-python being one
\* after a clean command that exited with code 0.
C24_LaunchNeedsInstallAndCompileSinceRemoval ==
  (Done /\ res.cmd = "run")
    => /\ res.w.launch # "none" => (prev.env /\ prev.jc)
       /\ (prev.cmd \in CleanCommands /\ prev.st = "ok")
            => (res.w.launch = "none" /\ res.w.st \in {"fatal", "sigint"})

C24_Witness ==
  /\ Done /\ res.cmd = "run" /\ res.w.launch = "exited" /\ res.w.st = "ok"
  /\ prev.env /\ prev.jc /\ fs.venv.exe /\ fs.classes = "nonempty"

\* A run directly after a clean that exited with code 0.
C24_WitnessAfterClean ==
  /\ Done /\ res.cmd = "run" /\ prev.cmd = "clean" /\ prev.st = "ok"
  /\ res.w.st = "fatal" /\ res.w.launch = "none"

\* C22: compile and clean-java leave the environment directory and the
\* library cache as they are; install and clean-python leave the
\* compiled-output directory as it is; clean-python and clean leave the
\* library cache as it is; run and info leave all three as they are.
C22_DirectoryOwnership ==
  Done =>
    /\ res.cmd \in {"compile", "clean-java"}
         => /\ fs.venv = res.pre.venv /\ fs.lib = res.pre.lib
            /\ ~Has("rmtree .venv") /\ ~Has("venv.create") /\ ~Has("makedirs lib")
    /\ res.cmd \in {"install", "clean-python"}
         => /\ fs.classes = res.pre.classes
            /\ ~Has("rmtree classes") /\ ~Has("makedirs classes")
    /\ res.cmd \in {"clean-python", "clean"}
         => (fs.lib = res.pre.lib /\ ~Has("makedirs lib"))
    /\ res.cmd \in {"run", "info"}
         => /\ fs = res.pre
            /\ \A i \in DOMAIN res.w.trace :
                 res.w.trace[i] \notin {"rmtree .venv", "venv.create", "makedirs lib",
                                        "rmtree classes", "makedirs classes"}

C22_Witness ==
  /\ Done /\ res.cmd = "clean-python" /\ res.w.st = "ok" /\ Has("rmtree .venv")
  /\ res.pre.classes = "nonempty" /\ fs.classes = "nonempty"
  /\ res.pre.lib.files # {} /\ fs.lib = res.pre.lib /\ ~fs.venv.dir

\* C23: a version probe of a tool that is not on the search path returns
\* None to its caller and the command goes on; for every other outcome the
\* probe returns a string; a probe never ends the command.
C23_ProbesNeverEndTheCommand ==
  (Done /\ res.cmd = "info" /\ res.w.st # "sigint"
     /\ res.w.err # "unexpected error running command")
    => /\ "java" \in res.w.missing => res.w.vstr = None
       /\ "java" \in res.w.found => res.w.vstr.some
       /\ "mvn" \in res.w.found \cup res.w.missing
       /\ res.w.err # "command not found"

\* What the probes do for a tool that is not on the search path: without a
\* shell the command ends there, by run_cmd's fatal error; with the shell
\* of Windows the probe returns "Error".  None is never returned.
C23_MissingToolIsFatalOrError ==
  (Done /\ res.cmd = "info" /\ "java" \in res.w.missing)
    => /\ res.w.platform = "Posix"
            => (res.w.err = "command not found" /\ ExitCode(res.w) = 1
                  /\ ~res.w.vstr.some /\ "mvn" \notin res.w.found \cup res.w.missing)
       /\ (res.w.platform = "Windows" /\ "mvn" \in res.w.found \cup res.w.missing)
            => res.w.vstr = Str(ErrorStr)

PassedChecks ==
  /\ "javac" \in res.w.found /\ res.w.vstr.some
  /\ res.w.err # "Java version below minimum"

AfterEmptyCompile ==
  /\ Done /\ res.cmd = "run" /\ res.w.st # "sigint"
  /\ prev.cmd = "compile" /\ prev.st = "ok" /\ prev.src = "nojava"
  /\ res.pre.classes = "empty"

\* C25 as claimed: a compile that passes the tool and version checks leaves
\* the compiled-output directory existing; with no source files and the
\* directory absent or empty it exits 0, and the run that follows it ends at
\* the "Compiled classes dir is empty" check without launching.
C25_CompileLeavesClassesDir ==
  /\ (Done /\ res.cmd = "compile" /\ PassedChecks) => fs.classes # "absent"
  /\ (Done /\ res.cmd = "compile" /\ res.w.src = "nojava" /\ res.pre.classes # "nonempty")
       => (ExitCode(res.w) = 0 /\ fs.classes = "empty")
  /\ AfterEmptyCompile
       => /\ ~Launched /\ ExitCode(res.w) = 1
          /\ res.w.err = "Compiled classes dir is empty"

\* C25 amended: the directory exists unless its creation failed, and the
\* run that follows ends by a fatal error without launching: at the
\* "Compiled classes dir is empty" check when java is on the search path,
\* the version gate passes and the environment directory exists, and at one
\* of those earlier checks otherwise.
C25_CompileLeavesClassesDirUnlessMakedirsFails ==
  /\ (Done /\ res.cmd = "compile" /\ PassedChecks
        /\ res.w.err # "unexpected error during command") => fs.classes # "absent"
  /\ (Done /\ res.cmd = "compile" /\ res.w.src = "nojava" /\ res.pre.classes # "nonempty")
       => (ExitCode(res.w) = 0 /\ fs.classes = "empty")
  /\ AfterEmptyCompile
       => /\ ~Launched /\ ExitCode(res.w) = 1
          /\ ("java" \in res.w.found /\ res.w.vstr.some
                /\ res.w.err \notin {"Java version below minimum", "unexpected error running command"}
                /\ res.pre.venv.dir)
               => res.w.err = "Compiled classes dir is empty"

C25_Witness ==
  /\ AfterEmptyCompile /\ res.w.err = "Compiled classes dir is empty"
  /\ ExitCode(res.w) = 1 /\ ~Launched /\ res.pre.venv.exe

====
